---- MODULE Spec2Model ----
(***************************************************************************)
(* Model of the exercise repetition / form engine (exercise_logic.py), of  *)
(* the main loop that drives it with its log (ai_pose_trainer.py) and of   *)
(* the pose-angle extractor (pose_utils.py).                               *)
(*                                                                         *)
(* Time is counted in tenths of a second, so the durations of the source   *)
(* (0.2, 0.8, 1.0, 1.5, 2.0 seconds) are the integers 2, 8, 10, 15, 20.    *)
(* Spec calls the four methods in any order for any exercise on a clock    *)
(* that advances in steps of 0.7s; Timing calls count_reps for the two     *)
(* timed exercises on a clock read to the tenth of a second; SquatSeq      *)
(* feeds one fixed squat sequence; Run is the frame loop of the trainer,   *)
(* from the log document found at startup.  PushupSeq, TreeHold and        *)
(* Debounce feed pushup, tree-pose and squat calls and record them in      *)
(* script; Session is the frame loop on an engine that is also called      *)
(* directly; Extractor applies calculate_angle and calculate_all_angles    *)
(* to keypoints whose confidence is 0.4, 0.5 or 0.6.                       *)
(* Feedback is the feedback engine (feedback_engine.py): a client that     *)
(* queues messages and calls stop(), interleaved with the worker thread    *)
(* one statement at a time; FeedbackFair adds the fairness of the thread.  *)
(* Angles are whole degrees in 0..180 (the range of the arccos of          *)
(* pose_utils.calculate_angle) or None.  The mean (a + b) / 2 of two       *)
(* angles is compared with a threshold T as a + b against 2 * T, and the   *)
(* scores of get_form_feedback are computed in exact rational arithmetic   *)
(* brought to a common denominator, so that int() is an integer division.  *)
(***************************************************************************)
EXTENDS Integers, Sequences, FiniteSets

\* ------------------------------------------------------------------ bounds
MaxTime == 36
MaxReps == 1
MaxLog == 3

\* Python's None (angles are >= 0 and time() is > 0)
None == -1

\* ------------------------------------------------- thresholds (__init__)
TreeKneeBend == 25
TreeBalanceDuration == 15
TreeHipVariance == 20
TreeRepGap == 10
SquatDown == 100
SquatUp == 130
SquatKneeAlignment == 30
SquatDebounce == 2
SquatRepGap == 8
SquatTimeout == 20
PushupDown == 100
PushupUp == 150
PushupHipVariance == 20
JackDown == 30
JackUp == 90

Exercises == {"tree_pose", "squat", "pushup", "jumping_jack"}
available_exercises == <<"tree_pose", "squat", "pushup", "jumping_jack">>

Abs(x) == IF x < 0 THEN -x ELSE x
Min(a, b) == IF a < b THEN a ELSE b
Max(a, b) == IF a > b THEN a ELSE b

\* ------------------------------------------------------------ the frames
\* A frame is what calculate_all_angles returns: every key mapped to an
\* angle or to None (the empty dict of a short keypoint list reads as None
\* through angles.get).
MkFrame(rk, lk, rh, lh, re, le, rs, ls) ==
    [right_knee |-> rk, left_knee |-> lk, right_hip |-> rh, left_hip |-> lh,
     right_elbow |-> re, left_elbow |-> le,
     right_shoulder |-> rs, left_shoulder |-> ls]

NoAngles == MkFrame(None, None, None, None, None, None, None, None)

\* frames that differ in the joints one exercise reads, <<right, left>>;
\* the other joints keep a standing posture
KneeFrame(k, h) == MkFrame(k[1], k[2], h[1], h[2], 160, 160, 20, 20)
ElbowFrame(e, h) == MkFrame(140, 140, h[1], h[2], e[1], e[2], 20, 20)
ShoulderFrame(s) == MkFrame(140, 140, 170, 170, 160, 160, s[1], s[2])

TreePoseFrames ==
    {KneeFrame(k, <<170, 170>>) :
        k \in {<<150, 90>>, <<140, 140>>, <<None, 90>>}}
    \cup {KneeFrame(<<150, 90>>, h) : h \in {<<170, 140>>, <<170, None>>}}
    \cup {NoAngles}

SquatFrames ==
    {KneeFrame(k, <<170, 170>>) :
        k \in {<<90, 90>>, <<100, 100>>, <<130, 130>>, <<140, 140>>,
               <<150, 90>>, <<180, 0>>, <<None, 90>>}}
    \cup {NoAngles}

PushupFrames ==
    {ElbowFrame(e, <<170, 170>>) :
        e \in {<<90, 90>>, <<100, 100>>, <<120, 120>>, <<150, 150>>,
               <<160, 160>>, <<None, 90>>}}
    \cup {ElbowFrame(<<180, 180>>, h) : h \in {<<170, 140>>, <<170, None>>}}
    \cup {NoAngles}

JumpingJackFrames ==
    {ShoulderFrame(sh) :
        sh \in {<<20, 20>>, <<30, 30>>, <<60, 60>>, <<90, 90>>,
                <<100, 100>>, <<180, 180>>, <<None, 20>>}}
    \cup {NoAngles}

\* the frames a call for one exercise is given
Frames(exercise) ==
    CASE exercise = "tree_pose" -> TreePoseFrames
      [] exercise = "squat" -> SquatFrames
      [] exercise = "pushup" -> PushupFrames
      [] exercise = "jumping_jack" -> JumpingJackFrames

\* ------------------------------------------------------- ExerciseLogic
\* ExerciseLogic.__init__: the session state of a new engine
ExerciseLogicInit ==
    [exercise_state |-> "start",
     rep_count |-> 0,
     pose_start_time |-> None,
     last_pose_end_time |-> None,
     form_status |-> [confidence |-> 0, feedback |-> <<>>]]

\* a reset that clears the counter and the timestamps and keeps the phase
reset_keeps_phase(self) ==
    [self EXCEPT !.rep_count = 0,
                 !.pose_start_time = None,
                 !.last_pose_end_time = None,
                 !.form_status = [confidence |-> 0, feedback |-> <<>>]]

\* ExerciseLogic.reset
reset(self) ==
    [self EXCEPT !.rep_count = 0,
                 !.exercise_state = "start",
                 !.pose_start_time = None,
                 !.last_pose_end_time = None,
                 !.form_status = [confidence |-> 0, feedback |-> <<>>]]

\* a form test that accepts a held tree pose
check_form_no_branch_tree_pose(self, exercise, angles) ==
    /\ exercise = "tree_pose"
    /\ \A k \in {"right_knee", "left_knee", "right_hip", "left_hip"} :
           angles[k] # None
    /\ Abs(angles["right_knee"] - angles["left_knee"]) > TreeKneeBend
    /\ Abs(angles["right_hip"] - angles["left_hip"]) < TreeHipVariance

\* the final `return False` of check_form, reached by every exercise that
\* has no branch of its own: tree_pose is one of them
check_form_no_branch(self, exercise, angles) == FALSE

\* ExerciseLogic.check_form: the value returned; the method assigns nothing
check_form_value(self, exercise, angles) ==
    CASE exercise = "squat" ->
            IF angles["right_knee"] # None /\ angles["left_knee"] # None
            THEN IF self.exercise_state = "up"
                 THEN angles["right_knee"] + angles["left_knee"] <= 2 * SquatDown
                 ELSE angles["right_knee"] + angles["left_knee"] >= 2 * SquatUp
            ELSE FALSE
      [] exercise = "pushup" ->
            IF angles["right_elbow"] # None /\ angles["left_elbow"] # None
            THEN IF self.exercise_state = "up"
                 THEN angles["right_elbow"] + angles["left_elbow"] <= 2 * PushupDown
                 ELSE angles["right_elbow"] + angles["left_elbow"] >= 2 * PushupUp
            ELSE FALSE
      [] exercise = "jumping_jack" ->
            IF angles["right_shoulder"] # None /\ angles["left_shoulder"] # None
            THEN IF self.exercise_state = "up"
                 THEN angles["right_shoulder"] + angles["left_shoulder"] >= 2 * JackUp
                 ELSE angles["right_shoulder"] + angles["left_shoulder"] <= 2 * JackDown
            ELSE FALSE
      [] OTHER -> check_form_no_branch(self, exercise, angles)

\* The result of a method call: the engine after it, the value returned,
\* and whether the call raised instead of returning.
Result(self, ret) == [self |-> self, ret |-> ret, raised |-> FALSE]
Raised(self) == [self |-> self, ret |-> FALSE, raised |-> TRUE]

\* a check_form that commits the transition it observes
check_form_commits(self, exercise, angles) ==
    IF check_form_value(self, exercise, angles)
    THEN Result([self EXCEPT !.exercise_state =
                     IF self.exercise_state = "up" THEN "down" ELSE "up"],
                TRUE)
    ELSE Result(self, FALSE)

check_form(self, exercise, angles) ==
    Result(self, check_form_value(self, exercise, angles))

\* ------------------------------------------------------------ count_reps
\* the held condition of the tree pose
tree_pose_held(angles) ==
    /\ Abs(angles["right_knee"] - angles["left_knee"]) > TreeKneeBend
    /\ Abs(angles["right_hip"] - angles["left_hip"]) < TreeHipVariance

\* a presence test that forgets the hips
tree_pose_knees_present(angles) ==
    \A k \in {"right_knee", "left_knee"} : angles[k] # None

\* the four angles the tree pose requires are present
tree_pose_angles_present(angles) ==
    \A k \in {"right_knee", "left_knee", "right_hip", "left_hip"} :
        angles[k] # None

\* a hold that needs more than balance_duration
tree_pose_hold_reached_strict(self, current_time) ==
    current_time - self.pose_start_time > TreeBalanceDuration

\* the hold has lasted balance_duration
tree_pose_hold_reached(self, current_time) ==
    current_time - self.pose_start_time >= TreeBalanceDuration

\* a tree-pose rep that needs no gap since the last completion
tree_pose_gap_ok_always(self, current_time) == TRUE

\* the gap since the last completion that a tree-pose rep requires
tree_pose_gap_ok(self, current_time) ==
    \/ self.last_pose_end_time = None
    \/ current_time - self.last_pose_end_time > TreeRepGap

count_reps_tree_pose(self, angles, current_time) ==
    IF tree_pose_angles_present(angles)
    THEN IF tree_pose_held(angles)
         THEN IF self.exercise_state = "start"
              THEN Result([self EXCEPT !.pose_start_time = current_time,
                                       !.exercise_state = "holding"], FALSE)
              ELSE IF self.exercise_state = "holding"
              THEN IF self.pose_start_time = None
                   THEN Raised(self)  \* float - None is a TypeError
                   ELSE IF /\ tree_pose_hold_reached(self, current_time)
                           /\ tree_pose_gap_ok(self, current_time)
                        THEN Result([self EXCEPT
                                 !.rep_count = self.rep_count + 1,
                                 !.last_pose_end_time = current_time], TRUE)
                        ELSE Result(self, FALSE)
              ELSE Result(self, FALSE)
         ELSE Result([self EXCEPT !.exercise_state = "start",
                                  !.pose_start_time = None], FALSE)
    ELSE Result(self, FALSE)

\* a debounce that needs more than 0.2s
squat_debounced_strict(self, current_time) ==
    current_time - self.pose_start_time > SquatDebounce

\* a squat transition timer has run for the debounce time
squat_debounced(self, current_time) ==
    current_time - self.pose_start_time >= SquatDebounce

\* a squat rep that needs no gap since the last completion
squat_gap_ok_always(self, current_time) == TRUE

\* the gap since the last completion that a squat rep requires
squat_gap_ok(self, current_time) ==
    \/ self.last_pose_end_time = None
    \/ current_time - self.last_pose_end_time > SquatRepGap

\* a squat branch with no stuck-state recovery
squat_timeout_never(self, current_time) ==
    self

\* "Reset if stuck in a state too long": pose_start_time is tested for
\* truth, so None and 0 both skip the test
squat_timeout(self, current_time) ==
    IF /\ self.pose_start_time # None
       /\ self.pose_start_time # 0
       /\ current_time - self.pose_start_time > SquatTimeout
    THEN [self EXCEPT !.pose_start_time = None, !.exercise_state = "up"]
    ELSE self

\* the "Going down" branch
squat_going_down(self, current_time) ==
    IF self.pose_start_time = None
    THEN [self EXCEPT !.pose_start_time = current_time]
    ELSE IF squat_debounced(self, current_time)
         THEN [self EXCEPT !.exercise_state = "down",
                           !.pose_start_time = None]
         ELSE self

\* the "Coming up" branch; it returns True when it completes a rep and
\* otherwise falls through to the timeout test
squat_coming_up(self, current_time) ==
    IF self.pose_start_time = None
    THEN Result(squat_timeout([self EXCEPT !.pose_start_time = current_time],
                              current_time), FALSE)
    ELSE IF /\ squat_debounced(self, current_time)
            /\ squat_gap_ok(self, current_time)
         THEN Result([self EXCEPT !.exercise_state = "up",
                                  !.rep_count = self.rep_count + 1,
                                  !.last_pose_end_time = current_time,
                                  !.pose_start_time = None], TRUE)
         ELSE Result(squat_timeout(self, current_time), FALSE)

count_reps_squat(self, angles, current_time) ==
    IF angles["right_knee"] # None /\ angles["left_knee"] # None
    THEN LET knee_angle2 == angles["right_knee"] + angles["left_knee"]
         IN  IF self.exercise_state = "up" /\ knee_angle2 < 2 * SquatDown
             THEN Result(squat_timeout(squat_going_down(self, current_time),
                                       current_time), FALSE)
             ELSE IF self.exercise_state = "down" /\ knee_angle2 > 2 * SquatUp
             THEN squat_coming_up(self, current_time)
             ELSE Result(squat_timeout(self, current_time), FALSE)
    ELSE Result(self, FALSE)

\* a down edge that takes the threshold itself
pushup_going_down_inclusive(self, elbow_angle2) ==
    self.exercise_state = "up" /\ elbow_angle2 <= 2 * PushupDown

\* the down edge of the pushup: phase up and the mean elbow angle below
\* down; elbow_angle2 is twice the mean
pushup_going_down(self, elbow_angle2) ==
    self.exercise_state = "up" /\ elbow_angle2 < 2 * PushupDown

\* an arms-raised edge that takes the threshold itself
jumping_jack_arms_raised_inclusive(self, shoulder_angle2) ==
    self.exercise_state = "up" /\ shoulder_angle2 >= 2 * JackUp

\* the edge that moves the jumping jack to phase down: phase up and the
\* mean shoulder angle above up; shoulder_angle2 is twice the mean
jumping_jack_arms_raised(self, shoulder_angle2) ==
    self.exercise_state = "up" /\ shoulder_angle2 > 2 * JackUp

\* a pushup machine that signals the rep and forgets to count it
count_reps_pushup_uncounted(self, angles) ==
    IF angles["right_elbow"] # None /\ angles["left_elbow"] # None
    THEN LET elbow_angle2 == angles["right_elbow"] + angles["left_elbow"]
         IN  IF self.exercise_state = "up" /\ elbow_angle2 < 2 * PushupDown
             THEN Result([self EXCEPT !.exercise_state = "down"], FALSE)
             ELSE IF self.exercise_state = "down" /\ elbow_angle2 > 2 * PushupUp
             THEN Result([self EXCEPT !.exercise_state = "up"], TRUE)
             ELSE Result(self, FALSE)
    ELSE Result(self, FALSE)

count_reps_pushup(self, angles) ==
    IF angles["right_elbow"] # None /\ angles["left_elbow"] # None
    THEN LET elbow_angle2 == angles["right_elbow"] + angles["left_elbow"]
         IN  IF pushup_going_down(self, elbow_angle2)
             THEN Result([self EXCEPT !.exercise_state = "down"], FALSE)
             ELSE IF self.exercise_state = "down" /\ elbow_angle2 > 2 * PushupUp
             THEN Result([self EXCEPT !.exercise_state = "up",
                                      !.rep_count = self.rep_count + 1], TRUE)
             ELSE Result(self, FALSE)
    ELSE Result(self, FALSE)

count_reps_jumping_jack(self, angles) ==
    IF angles["right_shoulder"] # None /\ angles["left_shoulder"] # None
    THEN LET shoulder_angle2 == angles["right_shoulder"] + angles["left_shoulder"]
         IN  IF jumping_jack_arms_raised(self, shoulder_angle2)
             THEN Result([self EXCEPT !.exercise_state = "down"], FALSE)
             ELSE IF self.exercise_state = "down" /\ shoulder_angle2 < 2 * JackDown
             THEN Result([self EXCEPT !.exercise_state = "up",
                                      !.rep_count = self.rep_count + 1], TRUE)
             ELSE Result(self, FALSE)
    ELSE Result(self, FALSE)

\* ExerciseLogic.count_reps; current_time is the value time() returned
count_reps(self, exercise, angles, current_time) ==
    CASE exercise = "tree_pose" -> count_reps_tree_pose(self, angles, current_time)
      [] exercise = "squat" -> count_reps_squat(self, angles, current_time)
      [] exercise = "pushup" -> count_reps_pushup(self, angles)
      [] exercise = "jumping_jack" -> count_reps_jumping_jack(self, angles)
      [] OTHER -> Result(self, FALSE)

\* ----------------------------------------------------- get_form_feedback
\* "Default feedback if none generated"
default_feedback(feedback) ==
    IF feedback = <<>> THEN <<"Form looks good!">> ELSE feedback

\* a sub-score left unclamped
clamp_high_off(score, top) == score

\* min(100, ...) on a sub-score
clamp_high(score, top) == Min(top, score)

\* max(0, ...) on a sub-score
clamp_low(score) == Max(0, score)

\* knee_score = min(100, knee_diff / 25 * 100)  = min(100, 4 * knee_diff)
\* hip_score  = max(0, 100 - hip_diff / 20 * 100) = max(0, 100 - 5 * hip_diff)
feedback_tree_pose(self, angles) ==
    IF tree_pose_angles_present(angles)
    THEN LET knee_diff == Abs(angles["right_knee"] - angles["left_knee"])
             hip_diff == Abs(angles["right_hip"] - angles["left_hip"])
             knee_score == clamp_high(4 * knee_diff, 100)
             hip_score == clamp_low(100 - 5 * hip_diff)
         IN  [confidence |-> (knee_score + hip_score) \div 2,
              feedback |-> default_feedback(
                  (IF knee_diff < TreeKneeBend
                   THEN <<"Raise your knee higher">> ELSE <<>>)
                  \o (IF hip_diff > TreeHipVariance
                      THEN <<"Keep your hips level">> ELSE <<>>))]
    ELSE [confidence |-> 0, feedback |-> default_feedback(<<>>)]

\* a squat feedback that asks for depth only while standing (phase up)
feedback_squat_by_phase(self, angles) ==
    IF angles["right_knee"] # None /\ angles["left_knee"] # None
    THEN LET knee_angle2 == angles["right_knee"] + angles["left_knee"]
             knee_diff == Abs(angles["right_knee"] - angles["left_knee"])
             depth_score6 == Min(600, 3 * knee_angle2)
             alignment_score6 == Max(0, 600 - 20 * knee_diff)
         IN  [confidence |-> (depth_score6 + alignment_score6) \div 12,
              feedback |-> default_feedback(
                  (IF knee_angle2 > 2 * SquatDown /\ self.exercise_state = "up"
                   THEN <<"Squat deeper">> ELSE <<>>)
                  \o (IF knee_diff > SquatKneeAlignment
                      THEN <<"Keep knees aligned">> ELSE <<>>))]
    ELSE [confidence |-> 0, feedback |-> default_feedback(<<>>)]

\* depth_score = min(100, knee_angle / 100 * 100), in sixths: min(600, 3 * (r + l))
\* alignment_score = max(0, 100 - knee_diff / 30 * 100), in sixths:
\*     max(0, 600 - 20 * knee_diff)
feedback_squat(self, angles) ==
    IF angles["right_knee"] # None /\ angles["left_knee"] # None
    THEN LET knee_angle2 == angles["right_knee"] + angles["left_knee"]
             knee_diff == Abs(angles["right_knee"] - angles["left_knee"])
             depth_score6 == clamp_high(3 * knee_angle2, 600)
             alignment_score6 == clamp_low(600 - 20 * knee_diff)
         IN  [confidence |-> (depth_score6 + alignment_score6) \div 12,
              feedback |-> default_feedback(
                  (IF knee_angle2 > 2 * SquatDown
                   THEN <<"Squat deeper">> ELSE <<>>)
                  \o (IF knee_diff > SquatKneeAlignment
                      THEN <<"Keep knees aligned">> ELSE <<>>))]
    ELSE [confidence |-> 0, feedback |-> default_feedback(<<>>)]

\* depth_score = min(100, elbow_angle / 100 * 100), in halves: min(200, r + l)
\* hip_score = max(0, 100 - hip_diff / 20 * 100), in halves:
\*     max(0, 200 - 10 * hip_diff)
feedback_pushup(self, angles) ==
    IF \A k \in {"right_elbow", "left_elbow", "right_hip", "left_hip"} :
           angles[k] # None
    THEN LET elbow_angle2 == angles["right_elbow"] + angles["left_elbow"]
             hip_diff == Abs(angles["right_hip"] - angles["left_hip"])
             depth_score2 == clamp_high(elbow_angle2, 200)
             hip_score2 == clamp_low(200 - 10 * hip_diff)
         IN  [confidence |-> (depth_score2 + hip_score2) \div 4,
              feedback |-> default_feedback(
                  (IF elbow_angle2 > 2 * PushupDown
                   THEN <<"Lower your chest">> ELSE <<>>)
                  \o (IF hip_diff > PushupHipVariance
                      THEN <<"Keep your body straight">> ELSE <<>>))]
    ELSE [confidence |-> 0, feedback |-> default_feedback(<<>>)]

\* confidence = int(min(100, shoulder_angle / 90 * 100)), in ninths:
\*     min(900, 5 * (r + l)) div 9
feedback_jumping_jack(self, angles) ==
    IF angles["right_shoulder"] # None /\ angles["left_shoulder"] # None
    THEN LET shoulder_angle2 == angles["right_shoulder"] + angles["left_shoulder"]
         IN  [confidence |-> clamp_high(5 * shoulder_angle2, 900) \div 9,
              feedback |-> default_feedback(
                  IF shoulder_angle2 < 2 * JackUp
                  THEN <<"Raise arms higher">> ELSE <<>>)]
    ELSE [confidence |-> 0, feedback |-> default_feedback(<<>>)]

\* ExerciseLogic.get_form_feedback: the pair returned; the method assigns
\* nothing to self
get_form_feedback_value(self, exercise, angles) ==
    CASE exercise = "tree_pose" -> feedback_tree_pose(self, angles)
      [] exercise = "squat" -> feedback_squat(self, angles)
      [] exercise = "pushup" -> feedback_pushup(self, angles)
      [] exercise = "jumping_jack" -> feedback_jumping_jack(self, angles)
      [] OTHER -> [confidence |-> 0, feedback |-> default_feedback(<<>>)]

get_form_feedback(self, exercise, angles) ==
    Result(self, get_form_feedback_value(self, exercise, angles))

\* the angle test of the count_reps branch that the phase selects: the
\* going-down test in phase up, the coming-up test in phase down, and no
\* test at all in any other phase
count_reps_condition(self, exercise, angles) ==
    CASE exercise = "squat" ->
            LET knee_angle2 == angles["right_knee"] + angles["left_knee"]
            IN  \/ self.exercise_state = "up" /\ knee_angle2 < 2 * SquatDown
                \/ self.exercise_state = "down" /\ knee_angle2 > 2 * SquatUp
      [] exercise = "pushup" ->
            LET elbow_angle2 == angles["right_elbow"] + angles["left_elbow"]
            IN  \/ pushup_going_down(self, elbow_angle2)
                \/ self.exercise_state = "down" /\ elbow_angle2 > 2 * PushupUp
      [] exercise = "jumping_jack" ->
            LET shoulder_angle2 == angles["right_shoulder"]
                                       + angles["left_shoulder"]
            IN  \/ jumping_jack_arms_raised(self, shoulder_angle2)
                \/ self.exercise_state = "down"
                   /\ shoulder_angle2 < 2 * JackDown

\* ------------------------------------------------------- the log document
\* exercise_log.json as the trainer finds it: missing, not JSON ("corrupt"),
\* JSON that is not a list ("object"), or a list of records
LogDocument(kind, data) == [kind |-> kind, data |-> data]

EmptyLog == LogDocument("list", <<>>)

\* a record written by an earlier session
OldEntry(n) ==
    [timestamp |-> 0, exercise |-> "squat", rep_count |-> n,
     status |-> "rep_completed", angles |-> NoAngles]

LogFiles ==
    {LogDocument("missing", <<>>), LogDocument("corrupt", <<>>),
     LogDocument("object", <<>>), EmptyLog,
     LogDocument("list", <<OldEntry(1)>>),
     LogDocument("list", <<OldEntry(2), OldEntry(1)>>)}

\* what the try block of _init_log_file raises on an existing document:
\* json.load raises JSONDecodeError, the isinstance test ValueError
init_log_file_exception(file) ==
    IF file.kind = "corrupt" THEN "JSONDecodeError"
    ELSE IF file.kind # "list" THEN "ValueError"
    ELSE "none"

\* a handler that catches json.JSONDecodeError only
init_log_file_decode_only(file) ==
    [file |-> IF file.kind = "missing"
                 \/ init_log_file_exception(file) = "JSONDecodeError"
              THEN EmptyLog ELSE file,
     raised |-> FALSE]

\* AIPoseTrainer._init_log_file: the document it leaves, and whether an
\* exception leaves the method (the outer handler catches every Exception)
init_log_file(file) ==
    [file |-> IF file.kind = "missing"
                 \/ init_log_file_exception(file)
                        \in {"JSONDecodeError", "ValueError"}
              THEN EmptyLog ELSE file,
     raised |-> FALSE]

\* float(v) for each angle present, None for the others
serializable_angles(angles) ==
    [k \in DOMAIN angles |-> angles[k]]

\* a logger that writes the new entry alone
log_exercise_data_overwrite(file, exercise, rep_count, angles, status, timestamp) ==
    LogDocument("list",
                <<[timestamp |-> timestamp, exercise |-> exercise,
                   rep_count |-> rep_count, status |-> status,
                   angles |-> serializable_angles(angles)]>>)

\* AIPoseTrainer.log_exercise_data: a document that cannot be read as a list
\* counts as empty; the entry is appended and the list written back
log_exercise_data(file, exercise, rep_count, angles, status, timestamp) ==
    LET log_entry == [timestamp |-> timestamp, exercise |-> exercise,
                      rep_count |-> rep_count, status |-> status,
                      angles |-> serializable_angles(angles)]
        data == IF file.kind = "list" THEN file.data ELSE <<>>
    IN  LogDocument("list", Append(data, log_entry))

\* ------------------------------------------------ the pose-angle extractor
\* a keypoint is (x, y, confidence); confidence is in tenths
ConfidenceCutoff == 5
NaN == -2

Keypoint(x, y, conf) == [x |-> x, y |-> y, conf |-> conf]

\* PoseDetector.calculate_angle: the angle at p2 between p1 and p3.  The
\* arccos is evaluated for arms that lie along the axes and the diagonals,
\* where it is a multiple of 45 degrees; an arm of length 0 divides by 0.
calculate_angle(p1, p2, p3) ==
    IF p1.conf < ConfidenceCutoff \/ p2.conf < ConfidenceCutoff
       \/ p3.conf < ConfidenceCutoff
    THEN None
    ELSE LET ba == <<p1.x - p2.x, p1.y - p2.y>>
             bc == <<p3.x - p2.x, p3.y - p2.y>>
             dot == ba[1] * bc[1] + ba[2] * bc[2]
             cross == ba[1] * bc[2] - ba[2] * bc[1]
         IN  CASE ba = <<0, 0>> \/ bc = <<0, 0>> -> NaN
               [] cross = 0 /\ dot > 0 -> 0
               [] dot > 0 /\ Abs(cross) = dot -> 45
               [] dot = 0 -> 90
               [] dot < 0 /\ Abs(cross) = -dot -> 135
               [] cross = 0 /\ dot < 0 -> 180

\* PoseDetector.calculate_all_angles; keypoints[i] of the code is
\* keypoints[i + 1] here
calculate_all_angles(keypoints) ==
    LET kp(i) == keypoints[i + 1]
    IN  IF Len(keypoints) < 17
        THEN <<>>
        ELSE [left_shoulder |-> calculate_angle(kp(7), kp(5), kp(11)),
              right_shoulder |-> calculate_angle(kp(8), kp(6), kp(12)),
              left_elbow |-> calculate_angle(kp(5), kp(7), kp(9)),
              right_elbow |-> calculate_angle(kp(6), kp(8), kp(10)),
              left_hip |-> calculate_angle(kp(5), kp(11), kp(13)),
              right_hip |-> calculate_angle(kp(6), kp(12), kp(14)),
              left_knee |-> calculate_angle(kp(11), kp(13), kp(15)),
              right_knee |-> calculate_angle(kp(12), kp(14), kp(16))]

\* the keypoints the extractor is given
Confidences == {4, 5, 6}

Keypoints ==
    {Keypoint(xy[1], xy[2], conf) :
        xy \in {<<0, 0>>, <<1, 0>>, <<1, 1>>},
        conf \in Confidences}

\* a standing person seen from the front: x is 1 on the left side and 3 on
\* the right, y grows downwards; the right wrist is raised to (4, 1) when
\* the right elbow is bent
Skeleton(left_knee_conf, right_elbow_conf, bent) ==
    <<Keypoint(2, 0, 9), Keypoint(2, 0, 9), Keypoint(2, 0, 9),
      Keypoint(2, 0, 9), Keypoint(2, 0, 9),
      Keypoint(1, 1, 9), Keypoint(3, 1, 9),
      Keypoint(1, 2, 9), Keypoint(3, 2, right_elbow_conf),
      Keypoint(1, 3, 9),
      IF bent THEN Keypoint(4, 1, 9) ELSE Keypoint(3, 3, 9),
      Keypoint(1, 3, 9), Keypoint(3, 3, 9),
      Keypoint(1, 4, left_knee_conf), Keypoint(3, 4, 9),
      Keypoint(1, 5, 9), Keypoint(3, 5, 9)>>

Skeletons ==
    {Skeleton(k, e, b) : k \in Confidences, e \in Confidences,
                         b \in BOOLEAN}
    \cup {SubSeq(Skeleton(9, 9, FALSE), 1, 16)}

\* ------------------------------------------------------- feedback engine
\* FeedbackEngine(cooldown=2): two seconds between two messages
Cooldown == 20

\* the time.sleep(0.1) that ends every iteration of the worker
WorkerSleep == 1

\* FeedbackEngine.__init__: the thread is started and is about to test
\* `while self.running`.  thread is the statement the worker is at,
\* current_time and feedback are its locals, lock is whether self.lock is
\* held.  spoken is what the speech engine has voiced and voice_start the
\* time the latest voicing began; queued is the history of the messages
\* handed to queue_feedback.
FeedbackEngineInit ==
    [running |-> TRUE,
     last_feedback_time |-> 0,
     cooldown |-> Cooldown,
     lock |-> FALSE,
     thread |-> "while",
     current_time |-> None,
     feedback |-> <<>>,
     spoken |-> <<>>,
     voice_start |-> None,
     queued |-> <<>>]

\* FeedbackEngine.queue_feedback: Queue.put on an unbounded queue
queue_feedback(queue, feedback) == Append(queue, feedback)

\* a worker that does not look whether a message is waiting
queue_not_empty_unchecked(queue) == TRUE

\* `not self.feedback_queue.empty()`
queue_not_empty(queue) == queue # <<>>

\* a worker that voices the newest message first
queue_get_newest(queue) ==
    [feedback |-> queue[Len(queue)],
     queue |-> SubSeq(queue, 1, Len(queue) - 1)]

\* Queue.get on a queue that holds a message: the oldest one leaves
queue_get(queue) ==
    [feedback |-> Head(queue), queue |-> Tail(queue)]

\* `current_time - self.last_feedback_time >= self.cooldown`
cooldown_over(self, current_time) ==
    current_time - self.last_feedback_time >= self.cooldown

\* ---------------------------------------------------------------- state
VARIABLES
    exercise_logic,    \* the ExerciseLogic object of the trainer
    now,               \* the clock: the value time() returns
    call,              \* the last method call: arguments and result
    current_exercise,  \* AIPoseTrainer.current_exercise
    exercise_index,    \* AIPoseTrainer.exercise_index
    script,            \* the values returned to a scripted sequence of calls
    log_file,          \* the document exercise_log.json
    feedback_queue,    \* FeedbackEngine.feedback_queue
    feedback_engine,   \* the FeedbackEngine object and its worker thread
    pc,                \* where the trainer is: init_log, loop, aborted, and
                       \* join or stopped once it has called stop()
    pose               \* the last call of the pose-angle extractor

vars == <<exercise_logic, now, call, current_exercise, exercise_index, script,
          log_file, feedback_queue, feedback_engine, pc, pose>>

\* the increments of the clock between two calls, in steps of 0.7s; it
\* never goes back
ClockSteps == {0, 7}

Call(op, exercise, angles, ret, raised, fb) ==
    [op |-> op, exercise |-> exercise, angles |-> angles,
     ret |-> ret, raised |-> raised,
     confidence |-> fb.confidence, feedback |-> fb.feedback]

NoFeedback == [confidence |-> 0, feedback |-> <<>>]

\* AIPoseTrainer.__init__ with a new ExerciseLogic and no log document
Init ==
    /\ exercise_logic = ExerciseLogicInit
    /\ now = 1
    /\ call = Call("init", "tree_pose", NoAngles, FALSE, FALSE, NoFeedback)
    /\ current_exercise = "tree_pose"
    /\ exercise_index = 0
    /\ script = <<>>
    /\ log_file = EmptyLog
    /\ feedback_queue = <<>>
    /\ feedback_engine = FeedbackEngineInit
    /\ pc = "loop"
    /\ pose = [op |-> "none"]

\* ---- the engine called directly, in any order and for any exercise
\* one call of count_reps(exercise, angles) when the clock reads current_time
CountRepsCall(exercise, angles, current_time, horizon, reps) ==
    LET r == count_reps(exercise_logic, exercise, angles, current_time)
    IN  /\ current_time <= horizon
        /\ r.self.rep_count <= reps
        /\ now' = current_time
        /\ exercise_logic' = r.self
        /\ call' = Call("count_reps", exercise, angles, r.ret, r.raised,
                        NoFeedback)
        /\ UNCHANGED <<current_exercise, exercise_index, log_file,
                       feedback_queue, feedback_engine, pc, pose>>

CountReps ==
    \E exercise \in Exercises, dt \in ClockSteps :
      \E angles \in Frames(exercise) :
        /\ CountRepsCall(exercise, angles, now + dt, MaxTime, MaxReps)
        /\ UNCHANGED script

CheckForm ==
    \E exercise \in Exercises :
      \E angles \in Frames(exercise) :
        LET r == check_form(exercise_logic, exercise, angles)
        IN  /\ exercise_logic' = r.self
            /\ call' = Call("check_form", exercise, angles, r.ret, r.raised,
                            NoFeedback)
            /\ UNCHANGED <<now, current_exercise, exercise_index, script,
                         log_file, feedback_queue, feedback_engine, pc,
                         pose>>

GetFormFeedback ==
    \E exercise \in Exercises :
      \E angles \in Frames(exercise) :
        LET r == get_form_feedback(exercise_logic, exercise, angles)
        IN  /\ exercise_logic' = r.self
            /\ call' = Call("get_form_feedback", exercise, angles, FALSE,
                            r.raised, r.ret)
            /\ UNCHANGED <<now, current_exercise, exercise_index, script,
                         log_file, feedback_queue, feedback_engine, pc,
                         pose>>

Reset ==
    /\ exercise_logic' = reset(exercise_logic)
    /\ call' = Call("reset", current_exercise, NoAngles, FALSE, FALSE,
                    NoFeedback)
    /\ UNCHANGED <<now, current_exercise, exercise_index, script,
                         log_file, feedback_queue, feedback_engine, pc,
                         pose>>

Next == CountReps \/ CheckForm \/ GetFormFeedback \/ Reset

Spec == Init /\ [][Next]_vars

\* ---- the timed exercises on a clock read every tenth of a second
TimingMaxTime == 31
TimingMaxReps == 2
TimingSteps == {0, 1, 2, 14, 21}

TimingFrames(exercise) ==
    CASE exercise = "tree_pose" ->
            {KneeFrame(<<150, 90>>, <<170, 170>>),
             KneeFrame(<<140, 140>>, <<170, 170>>), NoAngles}
      [] exercise = "squat" ->
            {KneeFrame(<<90, 90>>, <<170, 170>>),
             KneeFrame(<<150, 90>>, <<170, 170>>),
             KneeFrame(<<140, 140>>, <<170, 170>>), NoAngles}

TimedCountReps ==
    \E exercise \in {"tree_pose", "squat"}, dt \in TimingSteps :
      \E angles \in TimingFrames(exercise) :
        /\ CountRepsCall(exercise, angles, now + dt, TimingMaxTime, TimingMaxReps)
        /\ UNCHANGED script

TimingNext == TimedCountReps \/ Reset

Timing == Init /\ [][TimingNext]_vars

\* ---- the squat sequence 140, 140, 90, 90, 90, 140, 140 fed to an engine
\* whose phase is up.  A new engine is in phase start; it comes to phase up
\* with no completion through the timeout of count_reps('squat'), after a
\* tree-pose call has set pose_start_time.
SeqMaxTime == 60
SeqSteps == {2, 3, 5, 21}
SquatSequence == <<140, 140, 90, 90, 90, 140, 140>>

\* the frames whose mean knee angle is m
MeanKneeFrames(m) ==
    {KneeFrame(<<m + d, m - d>>, <<170, 170>>) : d \in {0, 10}}

SeqHold ==
    /\ exercise_logic.exercise_state = "start"
    /\ CountRepsCall("tree_pose", KneeFrame(<<150, 90>>, <<170, 170>>),
                     now, SeqMaxTime, MaxReps)
    /\ UNCHANGED script

SeqTimeout ==
    /\ exercise_logic.exercise_state = "holding"
    /\ \E dt \in {21, 22} :
         CountRepsCall("squat", KneeFrame(<<140, 140>>, <<170, 170>>),
                       now + dt, SeqMaxTime, MaxReps)
    /\ UNCHANGED script

SeqFeed ==
    /\ exercise_logic.exercise_state \in {"up", "down"}
    /\ Len(script) < Len(SquatSequence)
    /\ \E dt \in SeqSteps :
       \E angles \in MeanKneeFrames(SquatSequence[Len(script) + 1]) :
         /\ CountRepsCall("squat", angles, now + dt, SeqMaxTime, MaxReps)
         /\ script' = Append(script, call'.ret)

SquatSeqNext == SeqHold \/ SeqTimeout \/ SeqFeed

SquatSeq == Init /\ [][SquatSeqNext]_vars

\* ---- a pushup fed to an engine that has just been constructed or reset:
\* a call with the mean elbow angle below 100, then one with it above 150
LowElbowFrames ==
    {ElbowFrame(e, h) : e \in {<<90, 90>>, <<100, 80>>, <<60, 60>>},
                        h \in {<<170, 170>>, <<170, 140>>}}

HighElbowFrames ==
    {ElbowFrame(e, h) : e \in {<<160, 160>>, <<170, 150>>, <<180, 180>>},
                        h \in {<<170, 170>>, <<170, 140>>}}

PushupReset ==
    /\ script = <<>>
    /\ call.op # "reset"
    /\ Reset

PushupFeed ==
    /\ \/ Len(script) = 0 /\ call.op \in {"init", "reset"}
       \/ Len(script) = 1 /\ call.op = "count_reps"
          /\ call.exercise = "pushup"
    /\ \E dt \in SeqSteps :
       \E angles \in (IF Len(script) = 0 THEN LowElbowFrames
                      ELSE HighElbowFrames) :
         /\ CountRepsCall("pushup", angles, now + dt, SeqMaxTime, MaxReps)
         /\ script' = Append(script, call'.ret)

PushupSeqNext == SeqHold \/ SeqTimeout \/ PushupReset \/ PushupFeed

PushupSeq == Init /\ [][PushupSeqNext]_vars

\* ---- tree-pose calls on a clock read every tenth of a second; script
\* holds what count_reps returned during the hold in progress: it starts
\* again whenever a call does not see the pose held or leaves phase holding
MaxHoldCalls == 4

TreeFeed ==
    \E dt \in TimingSteps :
    \E angles \in TimingFrames("tree_pose") :
        /\ CountRepsCall("tree_pose", angles, now + dt, TimingMaxTime,
                         TimingMaxReps)
        /\ script' = IF /\ tree_pose_angles_present(angles)
                        /\ tree_pose_held(angles)
                        /\ exercise_logic'.exercise_state = "holding"
                     THEN Append(script, call'.ret)
                     ELSE <<>>
        /\ Len(script') <= MaxHoldCalls

TreeHoldNext == TreeFeed

TreeHold == Init /\ [][TreeHoldNext]_vars

\* ---- squat calls with both knee angles present, fed to an engine whose
\* phase is up (reached as in SquatSeq); script holds, for each call, twice
\* the mean knee angle, the time of the call, and the phase and the
\* debounce timer the call left
MaxSquatCalls == 4
DebounceSteps == {1, 2, 21}

DebounceFrames ==
    {KneeFrame(<<90, 90>>, <<170, 170>>), KneeFrame(<<150, 90>>, <<170, 170>>),
     KneeFrame(<<140, 140>>, <<170, 170>>)}

DebounceFeed ==
    /\ exercise_logic.exercise_state \in {"up", "down"}
    /\ Len(script) < MaxSquatCalls
    /\ \E dt \in DebounceSteps :
       \E angles \in DebounceFrames :
         /\ CountRepsCall("squat", angles, now + dt, SeqMaxTime, MaxReps)
         /\ script' = Append(script,
                [knees |-> angles["right_knee"] + angles["left_knee"],
                 time |-> now',
                 phase |-> exercise_logic'.exercise_state,
                 timer |-> exercise_logic'.pose_start_time])

DebounceNext == SeqHold \/ SeqTimeout \/ DebounceFeed

Debounce == Init /\ [][DebounceNext]_vars

\* ---- AIPoseTrainer.run: the frame loop and the exercise switch
AllFrames ==
    TreePoseFrames \cup SquatFrames \cup PushupFrames \cup JumpingJackFrames

\* __init__ up to the call of _init_log_file: the engine is new and the log
\* document is whatever an earlier session left
RunInit ==
    /\ exercise_logic = ExerciseLogicInit
    /\ now = 1
    /\ call = Call("init", "tree_pose", NoAngles, FALSE, FALSE, NoFeedback)
    /\ current_exercise = "tree_pose"
    /\ exercise_index = 0
    /\ script = <<>>
    /\ log_file \in LogFiles
    /\ feedback_queue = <<>>
    /\ feedback_engine = FeedbackEngineInit
    /\ pc = "init_log"
    /\ pose = [op |-> "none"]

\* the last statement of __init__
InitLogFile ==
    /\ pc = "init_log"
    /\ LET r == init_log_file(log_file)
       IN  /\ log_file' = r.file
           /\ pc' = IF r.raised THEN "aborted" ELSE "loop"
           /\ call' = [op |-> "init_log", found |-> log_file,
                       raised |-> r.raised]
    /\ UNCHANGED <<exercise_logic, now, current_exercise, exercise_index,
                   script, feedback_queue, feedback_engine, pose>>

\* the message f"Rep {rep_count} completed!"
RepMessage(rep_count) == <<"Rep", rep_count, "completed!">>

\* the queue after the frame: queue_feedback runs when the rep completed
frame_feedback(rep_completed, queue, rep_count) ==
    IF rep_completed
    THEN queue_feedback(queue, RepMessage(rep_count))
    ELSE queue

\* the document after the frame: log_exercise_data runs when the rep
\* completed
frame_log(rep_completed, file, exercise, rep_count, angles, timestamp) ==
    IF rep_completed
    THEN log_exercise_data(file, exercise, rep_count, angles,
                           "rep_completed", timestamp)
    ELSE file

\* one iteration with a detected person: check_form gates count_reps, a
\* completed rep is announced and logged, then _display_info asks for the
\* form feedback
RunFrameOver(frames, steps, horizon) ==
    \E angles \in frames, dt \in steps :
        LET form == check_form(exercise_logic, current_exercise, angles)
            rep == IF form.ret
                   THEN count_reps(form.self, current_exercise, angles,
                                   now + dt)
                   ELSE Result(form.self, FALSE)
            info == get_form_feedback(rep.self, current_exercise, angles)
        IN  /\ now + dt <= horizon
            /\ rep.self.rep_count <= MaxReps
            /\ now' = now + dt
            /\ exercise_logic' = info.self
            /\ call' = Call("frame", current_exercise, angles, rep.ret,
                            rep.raised, info.ret)
            /\ feedback_queue' = frame_feedback(rep.ret, feedback_queue,
                                                rep.self.rep_count)
            /\ log_file' = frame_log(rep.ret, log_file, current_exercise,
                                     rep.self.rep_count, angles, now + dt)
            /\ Len(log_file'.data) <= MaxLog
            /\ UNCHANGED <<current_exercise, exercise_index, script, pc,
                           pose, feedback_engine>>

RunFrame ==
    /\ pc = "loop"
    /\ RunFrameOver(AllFrames, ClockSteps, MaxTime)

\* a switch that reads the catalog before it advances the index
RunSwitchStale ==
    /\ pc = "loop"
    /\ exercise_index' = (exercise_index + 1) % Len(available_exercises)
    /\ current_exercise' = available_exercises[exercise_index + 1]
    /\ exercise_logic' = reset(exercise_logic)
    /\ call' = Call("reset", current_exercise', NoAngles, FALSE, FALSE,
                    NoFeedback)
    /\ UNCHANGED <<now, script, log_file, feedback_queue, feedback_engine,
                   pc, pose>>

\* key 'n'
RunSwitch ==
    /\ pc = "loop"
    /\ exercise_index' = (exercise_index + 1) % Len(available_exercises)
    /\ current_exercise' = available_exercises[exercise_index' + 1]
    /\ exercise_logic' = reset(exercise_logic)
    /\ call' = Call("reset", current_exercise', NoAngles, FALSE, FALSE,
                    NoFeedback)
    /\ UNCHANGED <<now, script, log_file, feedback_queue, feedback_engine,
                   pc, pose>>

RunNext == InitLogFile \/ RunFrame \/ RunSwitch

Run == RunInit /\ [][RunNext]_vars

\* ---- the frame loop on an engine that is also called directly.  In Run
\* the engine never leaves phase start; here a tree-pose call and a squat
\* call made on the engine between two frames bring it to phase up, as in
\* SquatSeq, and the frames that follow count.
SessionFrames ==
    {ElbowFrame(<<90, 90>>, <<170, 170>>),
     ElbowFrame(<<120, 120>>, <<170, 170>>),
     ElbowFrame(<<160, 160>>, <<170, 170>>),
     ShoulderFrame(<<100, 100>>), ShoulderFrame(<<20, 20>>), NoAngles}

SessionFrame ==
    /\ pc = "loop"
    /\ RunFrameOver(SessionFrames, {0}, SeqMaxTime)

SessionNext ==
    InitLogFile \/ SessionFrame \/ RunSwitch \/ SeqHold \/ SeqTimeout

Session == RunInit /\ [][SessionNext]_vars

\* ---- the pose-angle extractor on its own
CalculateAngle ==
    \E p1 \in Keypoints, p2 \in Keypoints, p3 \in Keypoints :
        /\ pose' = [op |-> "calculate_angle", p1 |-> p1, p2 |-> p2,
                    p3 |-> p3, ret |-> calculate_angle(p1, p2, p3)]
        /\ UNCHANGED <<exercise_logic, now, call, current_exercise,
                       exercise_index, script, log_file, feedback_queue,
                       feedback_engine, pc>>

CalculateAllAngles ==
    \E keypoints \in Skeletons :
        /\ pose' = [op |-> "calculate_all_angles", keypoints |-> keypoints,
                    ret |-> calculate_all_angles(keypoints)]
        /\ UNCHANGED <<exercise_logic, now, call, current_exercise,
                       exercise_index, script, log_file, feedback_queue,
                       feedback_engine, pc>>

ExtractorNext == CalculateAngle \/ CalculateAllAngles

Extractor == Init /\ [][ExtractorNext]_vars

\* ---- the feedback engine: a client that hands messages to
\* queue_feedback and then calls stop(), interleaved with the worker thread
\* statement by statement.  Time passes while the client works between two
\* calls, while the speech engine voices a message and while the worker
\* sleeps; time.time() is far above the cooldown when the engine is built.
MaxQueued == 3
FeedbackMaxTime == 45

\* the time the client spends before a call, in tenths of a second
ClientSteps == {0, 7}

\* how long runAndWait takes to voice one message: less and more than the
\* cooldown
SpeechTimes == {3, 25}

\* time.sleep(0.1) returns after 0.1s or later
SleepTimes == {WorkerSleep, WorkerSleep + 1}

FeedbackInit ==
    /\ exercise_logic = ExerciseLogicInit
    /\ now = Cooldown
    /\ call = Call("init", "tree_pose", NoAngles, FALSE, FALSE, NoFeedback)
    /\ current_exercise = "tree_pose"
    /\ exercise_index = 0
    /\ script = <<>>
    /\ log_file = EmptyLog
    /\ feedback_queue = <<>>
    /\ feedback_engine = FeedbackEngineInit
    /\ pc = "loop"
    /\ pose = [op |-> "none"]

FeedbackRest ==
    UNCHANGED <<exercise_logic, call, current_exercise, exercise_index,
                script, log_file, pose>>

\* the client calls queue_feedback(f"Rep {rep_count} completed!") for its
\* next rep
QueueFeedback ==
    \E dt \in ClientSteps :
      LET feedback == RepMessage(Len(feedback_engine.queued) + 1)
      IN
        /\ pc = "loop"
        /\ Len(feedback_engine.queued) < MaxQueued
        /\ now + dt <= FeedbackMaxTime
        /\ now' = now + dt
        /\ feedback_queue' = queue_feedback(feedback_queue, feedback)
        /\ feedback_engine' =
               [feedback_engine EXCEPT !.queued = Append(@, feedback)]
        /\ UNCHANGED pc
        /\ FeedbackRest

\* stop(): `self.running = False`
Stop ==
    /\ pc = "loop"
    /\ feedback_engine' = [feedback_engine EXCEPT !.running = FALSE]
    /\ pc' = "join"
    /\ UNCHANGED <<now, feedback_queue>>
    /\ FeedbackRest

\* stop(): `self.feedback_thread.join()` returns once the thread has ended
Join ==
    /\ pc = "join"
    /\ feedback_engine.thread = "exited"
    /\ pc' = "stopped"
    /\ UNCHANGED <<now, feedback_queue, feedback_engine>>
    /\ FeedbackRest

\* `while self.running:`
ProcessQueueWhile ==
    /\ feedback_engine.thread = "while"
    /\ feedback_engine.running => now <= FeedbackMaxTime
    /\ feedback_engine' =
           [feedback_engine EXCEPT
               !.thread = IF feedback_engine.running THEN "empty"
                          ELSE "exited"]
    /\ UNCHANGED <<now, feedback_queue, pc>>
    /\ FeedbackRest

\* `if not self.feedback_queue.empty():`
ProcessQueueEmpty ==
    /\ feedback_engine.thread = "empty"
    /\ feedback_engine' =
           [feedback_engine EXCEPT
               !.thread = IF queue_not_empty(feedback_queue) THEN "lock"
                          ELSE "sleep"]
    /\ UNCHANGED <<now, feedback_queue, pc>>
    /\ FeedbackRest

\* `with self.lock: current_time = time.time()`; nothing else takes the lock
ProcessQueueLock ==
    /\ feedback_engine.thread = "lock"
    /\ ~feedback_engine.lock
    /\ feedback_engine' =
           [feedback_engine EXCEPT !.lock = TRUE,
                                   !.current_time = now,
                                   !.thread = "cooldown"]
    /\ UNCHANGED <<now, feedback_queue, pc>>
    /\ FeedbackRest

\* the cooldown test; when it fails the with block ends
ProcessQueueCooldown ==
    /\ feedback_engine.thread = "cooldown"
    /\ feedback_engine' =
           IF cooldown_over(feedback_engine, feedback_engine.current_time)
           THEN [feedback_engine EXCEPT !.thread = "get"]
           ELSE [feedback_engine EXCEPT !.lock = FALSE, !.thread = "sleep"]
    /\ UNCHANGED <<now, feedback_queue, pc>>
    /\ FeedbackRest

\* `feedback = self.feedback_queue.get()`: blocks while the queue is empty
ProcessQueueGet ==
    /\ feedback_engine.thread = "get"
    /\ feedback_queue # <<>>
    /\ LET got == queue_get(feedback_queue)
       IN  /\ feedback_queue' = got.queue
           /\ feedback_engine' =
                  [feedback_engine EXCEPT !.feedback = got.feedback,
                                          !.thread = "say"]
    /\ UNCHANGED <<now, pc>>
    /\ FeedbackRest

\* `self.engine.say(feedback); self.engine.runAndWait()`: the voicing
\* starts now and the call returns when the message has been voiced
ProcessQueueSay ==
    \E dt \in SpeechTimes :
        /\ feedback_engine.thread = "say"
        /\ now' = now + dt
        /\ feedback_engine' =
               [feedback_engine EXCEPT
                   !.spoken = Append(@, feedback_engine.feedback),
                   !.voice_start = now,
                   !.thread = "record"]
        /\ UNCHANGED <<feedback_queue, pc>>
        /\ FeedbackRest

\* `self.last_feedback_time = current_time`, the last statement under the
\* lock
ProcessQueueRecord ==
    /\ feedback_engine.thread = "record"
    /\ feedback_engine' =
           [feedback_engine EXCEPT
               !.last_feedback_time = feedback_engine.current_time,
               !.lock = FALSE,
               !.thread = "sleep"]
    /\ UNCHANGED <<now, feedback_queue, pc>>
    /\ FeedbackRest

\* `time.sleep(0.1)`
ProcessQueueSleep ==
    \E dt \in SleepTimes :
        /\ feedback_engine.thread = "sleep"
        /\ now' = now + dt
        /\ feedback_engine' = [feedback_engine EXCEPT !.thread = "while"]
        /\ UNCHANGED <<feedback_queue, pc>>
        /\ FeedbackRest

\* FeedbackEngine._process_queue, one statement at a time
ProcessQueue ==
    \/ ProcessQueueWhile
    \/ ProcessQueueEmpty
    \/ ProcessQueueLock
    \/ ProcessQueueCooldown
    \/ ProcessQueueGet
    \/ ProcessQueueSay
    \/ ProcessQueueRecord
    \/ ProcessQueueSleep

FeedbackNext == QueueFeedback \/ Stop \/ Join \/ ProcessQueue

Feedback == FeedbackInit /\ [][FeedbackNext]_vars

\* a runnable thread is scheduled in the end, every speech call returns,
\* and join returns once the thread has ended
FeedbackFair ==
    /\ Feedback
    /\ WF_vars(ProcessQueue)
    /\ WF_vars(Join)

\* ================================================================ claims
\* the angles whose absence makes count_reps and check_form skip the frame
RequiredAngles(exercise) ==
    CASE exercise = "tree_pose" ->
            {"right_knee", "left_knee", "right_hip", "left_hip"}
      [] exercise = "squat" -> {"right_knee", "left_knee"}
      [] exercise = "pushup" -> {"right_elbow", "left_elbow"}
      [] exercise = "jumping_jack" -> {"right_shoulder", "left_shoulder"}

AngleMissing(exercise, angles) ==
    \E k \in RequiredAngles(exercise) : angles[k] = None

\* the session fields a call leaves as they were
SessionUnchanged ==
    /\ exercise_logic'.exercise_state = exercise_logic.exercise_state
    /\ exercise_logic'.rep_count = exercise_logic.rep_count
    /\ exercise_logic'.pose_start_time = exercise_logic.pose_start_time
    /\ exercise_logic'.last_pose_end_time = exercise_logic.last_pose_end_time

\* C1: after the reset() of an exercise switch, rep_count is 0, both
\* timestamps are absent and phase is the initial phase documented for the
\* exercise switched to: start for tree_pose, up for squat, pushup and
\* jumping_jack.  (Run)
C1_ResetInitialPhase ==
    call.op = "reset" =>
        /\ exercise_logic.rep_count = 0
        /\ exercise_logic.pose_start_time = None
        /\ exercise_logic.last_pose_end_time = None
        /\ exercise_logic.exercise_state =
               (IF current_exercise = "tree_pose" THEN "start" ELSE "up")

\* C2: in the frame loop with the exercise switch, phase is always one of
\* the states defined for the active exercise: start or holding for
\* tree_pose, up or down for squat, pushup and jumping_jack.  (Run)
C2_PhaseDefined ==
    exercise_logic.exercise_state \in
        (IF current_exercise = "tree_pose"
         THEN {"start", "holding"} ELSE {"up", "down"})

\* C3: rep_count is a natural number; a count_reps call that returns true
\* adds exactly 1 to it, reset() sets it to 0, and a count_reps call that
\* returns false, check_form and get_form_feedback leave it as it was.
\* (Spec)
C3_RepCountSteps ==
    [][/\ exercise_logic'.rep_count \in Nat
       /\ (call'.op = "count_reps" /\ call'.ret) =>
              exercise_logic'.rep_count = exercise_logic.rep_count + 1
       /\ (call'.op = "count_reps" /\ ~call'.ret) =>
              exercise_logic'.rep_count = exercise_logic.rep_count
       /\ call'.op \in {"check_form", "get_form_feedback"} =>
              exercise_logic'.rep_count = exercise_logic.rep_count
       /\ call'.op = "reset" => exercise_logic'.rep_count = 0]_vars

\* a pushup rep counted on an engine that already holds a rep
C3_Witness ==
    /\ call.op = "count_reps" /\ call.exercise = "pushup" /\ call.ret
    /\ exercise_logic.rep_count = 1

\* C4: from phase up with no earlier completion, the mean knee angles
\* 140, 140, 90, 90, 90, 140, 140 fed at least 0.2s apart return false six
\* times and true on the seventh call, which leaves rep_count 1 and phase
\* up.  (SquatSeq)
C4_SquatSequence ==
    /\ \A i \in 1..Len(script) : script[i] = (i = Len(SquatSequence))
    /\ Len(script) = Len(SquatSequence) =>
           /\ exercise_logic.rep_count = 1
           /\ exercise_logic.exercise_state = "up"

\* the whole sequence was fed and its seventh call completed the rep
C4_Witness ==
    /\ Len(script) = Len(SquatSequence)
    /\ script[Len(SquatSequence)]
    /\ now = exercise_logic.last_pose_end_time

\* C5: while holding with no earlier completion, the tree-pose call made
\* exactly 1.5s after the call that entered holding, the pose still held,
\* returns true and adds one rep; a call 1.4s after it that finds the pose
\* lost returns false, leaves rep_count and the (absent) completion time as
\* they were, and sets phase start and the start timestamp absent.  (Timing)
C5_TreePoseHold ==
    [][(/\ call'.op = "count_reps" /\ call'.exercise = "tree_pose"
        /\ ~AngleMissing("tree_pose", call'.angles)
        /\ exercise_logic.exercise_state = "holding"
        /\ exercise_logic.last_pose_end_time = None) =>
           /\ (/\ tree_pose_held(call'.angles)
               /\ now' - exercise_logic.pose_start_time = 15) =>
                  /\ call'.ret
                  /\ exercise_logic'.rep_count = exercise_logic.rep_count + 1
           /\ (/\ ~tree_pose_held(call'.angles)
               /\ now' - exercise_logic.pose_start_time = 14) =>
                  /\ ~call'.ret
                  /\ exercise_logic'.rep_count = exercise_logic.rep_count
                  /\ exercise_logic'.last_pose_end_time = None
                  /\ exercise_logic'.exercise_state = "start"
                  /\ exercise_logic'.pose_start_time = None]_vars

\* the first rep of a hold, counted exactly 1.5s after its start
C5_Witness ==
    /\ call.op = "count_reps" /\ call.exercise = "tree_pose" /\ call.ret
    /\ exercise_logic.exercise_state = "holding"
    /\ now - exercise_logic.pose_start_time = 15
    /\ exercise_logic.last_pose_end_time = now
    /\ exercise_logic.rep_count = 1

C7_MissingAngle ==
    [][(/\ call'.op \in {"count_reps", "check_form"}
        /\ AngleMissing(call'.exercise, call'.angles)) =>
           /\ ~call'.ret
           /\ ~call'.raised
           /\ SessionUnchanged]_vars

\* a tree-pose call without a hip angle, made during a hold
C7_Witness ==
    /\ call.op = "count_reps" /\ call.exercise = "tree_pose"
    /\ call.angles.left_hip = None /\ call.angles.right_knee # None
    /\ exercise_logic.exercise_state = "holding"

\* C8: get_form_feedback returns, in every session state, the confidence
\* and feedback that a new engine returns for the same exercise and angles.
\* (Spec)
C8_FeedbackPure ==
    call.op = "get_form_feedback" =>
        [confidence |-> call.confidence, feedback |-> call.feedback]
            = get_form_feedback_value(ExerciseLogicInit, call.exercise,
                                      call.angles)

\* squat feedback asked of an engine in phase down that holds a rep
C8_Witness ==
    /\ call.op = "get_form_feedback" /\ call.exercise = "squat"
    /\ call.feedback = <<"Squat deeper">>
    /\ exercise_logic.exercise_state = "down"
    /\ exercise_logic.rep_count = 1
    /\ exercise_logic.last_pose_end_time # None

\* C9: check_form and get_form_feedback leave phase, rep_count,
\* pose_start_time and last_pose_end_time as they were.  (Spec)
C9_NoSideEffects ==
    [][call'.op \in {"check_form", "get_form_feedback"} =>
           SessionUnchanged]_vars

\* check_form answered true while a squat timer was running
C9_Witness ==
    /\ call.op = "check_form" /\ call.ret
    /\ exercise_logic.exercise_state = "up"
    /\ exercise_logic.pose_start_time # None

C11_SwitchCyclesAndResets ==
    [][LET order == <<"tree_pose", "squat", "pushup", "jumping_jack">>
       IN  /\ current_exercise = order[exercise_index + 1]
           /\ current_exercise' = order[exercise_index' + 1]
           /\ current_exercise' # current_exercise =>
                 /\ exercise_index' = (exercise_index + 1) % 4
                 /\ call'.op = "reset"
                 /\ exercise_logic'.rep_count = 0
                 /\ exercise_logic'.pose_start_time = None
                 /\ exercise_logic'.last_pose_end_time = None
           /\ call'.op = "reset" =>
                 current_exercise' # current_exercise]_vars

\* the fourth switch in a row: the order wrapped round to tree_pose
C11_Witness ==
    /\ call.op = "reset"
    /\ current_exercise = "tree_pose"
    /\ exercise_index = 0
    /\ exercise_logic.rep_count = 0

\* C12: in the frame loop every rep-completed signal appends exactly one
\* record to the log, with status rep_completed, the active exercise and
\* the engine's rep_count after the increment; a frame without the signal
\* appends nothing, and the records already in the log are neither
\* modified, removed nor reordered.  (Session)
C12_RepLogged ==
    [][pc = "loop" =>
         IF call'.op = "frame" /\ call'.ret
         THEN LET before == log_file.data
                  after == log_file'.data
              IN  /\ log_file'.kind = "list"
                  /\ Len(after) = Len(before) + 1
                  /\ SubSeq(after, 1, Len(before)) = before
                  /\ after[Len(after)].status = "rep_completed"
                  /\ after[Len(after)].exercise = current_exercise
                  /\ after[Len(after)].rep_count =
                         exercise_logic'.rep_count
                  /\ exercise_logic'.rep_count =
                         exercise_logic.rep_count + 1
         ELSE log_file' = log_file]_vars

\* a frame completed a rep and its record follows the two records an
\* earlier session left
C12_Witness ==
    /\ call.op = "frame"
    /\ call.ret
    /\ log_file.kind = "list"
    /\ Len(log_file.data) = 3
    /\ SubSeq(log_file.data, 1, 2) = <<OldEntry(2), OldEntry(1)>>
    /\ log_file.data[3].exercise = current_exercise
    /\ log_file.data[3].rep_count = exercise_logic.rep_count

\* C13: at startup a log document that is missing, is not valid JSON, or is
\* valid JSON but not a list is replaced by an empty list, a well-formed
\* list is left as it is, and in none of these cases does startup abort.
\* (Run)
C13_LogInitialised ==
    [][pc = "init_log" /\ pc' # "init_log" =>
         /\ pc' = "loop"
         /\ ~call'.raised
         /\ log_file' = (IF log_file.kind = "list" THEN log_file
                         ELSE EmptyLog)]_vars

\* startup found a JSON document that is not a list and left an empty list
C13_Witness ==
    /\ call.op = "init_log"
    /\ call.found.kind = "object"
    /\ log_file = EmptyLog
    /\ pc = "loop"

\* C14: the extractor computes an angle only when all three contributing
\* keypoints have a confidence above the 0.5 cutoff: whenever one of the
\* three confidences is 0.5 or less, calculate_angle returns None, and so
\* does every angle of calculate_all_angles built on that keypoint.
\* (Extractor)
C14_AngleNeedsConfidence ==
    LET triple == [left_shoulder |-> <<7, 5, 11>>,
                   right_shoulder |-> <<8, 6, 12>>,
                   left_elbow |-> <<5, 7, 9>>,
                   right_elbow |-> <<6, 8, 10>>,
                   left_hip |-> <<5, 11, 13>>,
                   right_hip |-> <<6, 12, 14>>,
                   left_knee |-> <<11, 13, 15>>,
                   right_knee |-> <<12, 14, 16>>]
    IN  /\ pose.op = "calculate_angle" =>
              (pose.ret # None =>
                  /\ pose.p1.conf > ConfidenceCutoff
                  /\ pose.p2.conf > ConfidenceCutoff
                  /\ pose.p3.conf > ConfidenceCutoff)
        /\ pose.op = "calculate_all_angles" =>
              \A k \in DOMAIN pose.ret :
                  pose.ret[k] # None =>
                      \A i \in 1..3 :
                          pose.keypoints[triple[k][i] + 1].conf
                              > ConfidenceCutoff

\* C15: on an engine that has just been constructed or reset, a
\* count_reps('pushup') call with the mean elbow angle below 100 followed by
\* one with the mean elbow angle above 150 returns true on the second call,
\* and rep_count is then 1 with phase up.  (PushupSeq)
C15_PushupAfterReset ==
    (call.op = "count_reps" /\ call.exercise = "pushup" /\ Len(script) = 2) =>
        /\ script[2]
        /\ call.ret
        /\ exercise_logic.rep_count = 1
        /\ exercise_logic.exercise_state = "up"

\* C16: tree pose awards one rep for each sustained hold: during a single
\* uninterrupted hold (the pose held on every count_reps call, phase never
\* leaving holding) count_reps returns true at most once, however long the
\* hold lasts.  (TreeHold)
C16_OneRepPerHold ==
    Cardinality({i \in 1..Len(script) : script[i]}) <= 1

\* C17: the squat phase flips from up to down at a call only if the mean
\* knee angle was below 100 on every squat call with both knee angles
\* present from the call that started the down-transition timer to the
\* flipping call, and at least 0.2s passed between these two calls: a
\* reading below the threshold that does not persist never leads to the
\* flip.  (Debounce)
C17_DownDebouncePersists ==
    \A i \in 2..Len(script) :
        (script[i - 1].phase = "up" /\ script[i].phase = "down") =>
            \E j \in 1..(i - 1) :
                \* call j started the timer that call i found running
                /\ script[j].timer = script[j].time
                /\ \A k \in j..(i - 1) : script[k].timer = script[j].timer
                /\ \A k \in j..i : script[k].knees < 2 * SquatDown
                /\ script[i].time - script[j].time >= SquatDebounce

\* C18: after any count_reps('squat') call with both knee angles present no
\* debounce timer older than 2.0s remains; if the timer had been running
\* for more than 2.0s and the call committed no transition (no flip to
\* down, no rep), the timer is cleared, phase is up, rep_count is unchanged
\* and the call returns false.  (Timing)
C18_StuckRecovery ==
    [][(/\ call'.op = "count_reps"
        /\ call'.exercise = "squat"
        /\ ~AngleMissing("squat", call'.angles)) =>
          /\ \/ exercise_logic'.pose_start_time = None
             \/ now' - exercise_logic'.pose_start_time <= SquatTimeout
          /\ (/\ exercise_logic.pose_start_time # None
              /\ now' - exercise_logic.pose_start_time > SquatTimeout
              /\ ~call'.ret
              /\ ~(/\ exercise_logic.exercise_state = "up"
                   /\ exercise_logic'.exercise_state = "down")) =>
                /\ exercise_logic'.pose_start_time = None
                /\ exercise_logic'.exercise_state = "up"
                /\ exercise_logic'.rep_count = exercise_logic.rep_count
                /\ ~call'.ret]_vars

\* the squat call made 2.1s after a tree-pose call had set the timer: the
\* timer is gone and phase is up with nothing counted
C18_Witness ==
    /\ call.op = "count_reps"
    /\ call.exercise = "squat"
    /\ ~AngleMissing("squat", call.angles)
    /\ now = 22
    /\ exercise_logic.exercise_state = "up"
    /\ exercise_logic.pose_start_time = None
    /\ exercise_logic.rep_count = 0
    /\ ~call.ret

\* C19: count_reps('pushup') moves phase from up to down when the mean
\* elbow angle is below 100 and from down to up when it is above 150, and
\* changes phase in no other way; a mean elbow angle within 100..150
\* inclusive changes neither phase nor rep_count in either phase; true is
\* returned, and one rep counted, exactly on the down-to-up edge.  (Spec)
C19_PushupHysteresis ==
    [][(/\ call'.op = "count_reps"
        /\ call'.exercise = "pushup"
        /\ ~AngleMissing("pushup", call'.angles)) =>
          LET elbows2 == call'.angles["right_elbow"]
                             + call'.angles["left_elbow"]
              before == exercise_logic.exercise_state
              after == exercise_logic'.exercise_state
          IN  /\ (before = "up" /\ elbows2 < 2 * 100) => after = "down"
              /\ (before = "down" /\ elbows2 > 2 * 150) => after = "up"
              /\ after # before =>
                    \/ before = "up" /\ elbows2 < 2 * 100 /\ after = "down"
                    \/ before = "down" /\ elbows2 > 2 * 150 /\ after = "up"
              /\ (2 * 100 <= elbows2 /\ elbows2 <= 2 * 150) =>
                    /\ after = before
                    /\ exercise_logic'.rep_count = exercise_logic.rep_count
              /\ call'.ret <=> (before = "down" /\ after = "up")
              /\ exercise_logic'.rep_count =
                    exercise_logic.rep_count + (IF call'.ret THEN 1 ELSE 0)]_vars

\* after a counted rep the phase is down again and a call with the mean
\* elbow angle at exactly 150 has left it there
C19_Witness ==
    /\ call.op = "count_reps"
    /\ call.exercise = "pushup"
    /\ call.angles["right_elbow"] = 150
    /\ call.angles["left_elbow"] = 150
    /\ exercise_logic.exercise_state = "down"
    /\ exercise_logic.rep_count = 1
    /\ ~call.ret

\* C20: the jumping jack keeps its inverted naming: from phase up a mean
\* shoulder angle above 90 moves phase to down (arms raised) and counts
\* nothing; from phase down a mean shoulder angle below 30 moves phase to
\* up, adds one to rep_count and returns true; a mean shoulder angle within
\* 30..90 inclusive changes nothing; so a rep is counted only on the
\* arms-lowered edge that follows an arms-raised phase.  (Spec)
C20_JumpingJackInverted ==
    [][(/\ call'.op = "count_reps"
        /\ call'.exercise = "jumping_jack"
        /\ ~AngleMissing("jumping_jack", call'.angles)) =>
          LET shoulders2 == call'.angles["right_shoulder"]
                                + call'.angles["left_shoulder"]
              before == exercise_logic.exercise_state
              after == exercise_logic'.exercise_state
              counted == exercise_logic'.rep_count - exercise_logic.rep_count
          IN  /\ (before = "up" /\ shoulders2 > 2 * 90) =>
                    /\ after = "down"
                    /\ counted = 0
                    /\ ~call'.ret
              /\ (before = "down" /\ shoulders2 < 2 * 30) =>
                    /\ after = "up"
                    /\ counted = 1
                    /\ call'.ret
              /\ (2 * 30 <= shoulders2 /\ shoulders2 <= 2 * 90) =>
                    /\ after = before
                    /\ counted = 0
                    /\ ~call'.ret
              /\ (call'.ret \/ counted # 0) =>
                    /\ before = "down"
                    /\ shoulders2 < 2 * 30
                    /\ counted = 1]_vars

\* the arms came down below 30 after an arms-raised phase: one rep counted
C20_Witness ==
    /\ call.op = "count_reps"
    /\ call.exercise = "jumping_jack"
    /\ call.angles["right_shoulder"] = 20
    /\ call.angles["left_shoulder"] = 20
    /\ call.ret
    /\ exercise_logic.exercise_state = "up"
    /\ exercise_logic.rep_count = 1

\* C21: for squat, pushup and jumping_jack, in every phase and for every
\* pair of present angles, check_form returns true if and only if the same
\* angles meet the transition condition that count_reps uses in that phase.
\* (Spec)
C21_FormMatchesTransition ==
    (/\ call.op = "check_form"
     /\ call.exercise \in {"squat", "pushup", "jumping_jack"}
     /\ ~AngleMissing(call.exercise, call.angles)) =>
        (call.ret <=>
            count_reps_condition(exercise_logic, call.exercise, call.angles))

\* C22: with a clock that never goes back, a count_reps call that returns
\* true comes at least 0.8s (squat) or 1.0s (tree_pose) after the previous
\* call that returned true in the session, and last_pose_end_time is always
\* the time of the most recent completion, absent before the first one.
\* (Timing)
C22_InterRepGap ==
    [][/\ now' >= now
       /\ IF call'.op = "count_reps" /\ call'.ret
          THEN /\ exercise_logic'.last_pose_end_time = now'
               /\ \/ exercise_logic.last_pose_end_time = None
                  \/ now' - exercise_logic.last_pose_end_time >=
                        (IF call'.exercise = "squat" THEN 8 ELSE 10)
          ELSE IF call'.op = "reset"
          THEN exercise_logic'.last_pose_end_time = None
          ELSE exercise_logic'.last_pose_end_time =
                   exercise_logic.last_pose_end_time
       /\ exercise_logic.rep_count = 0 =>
              exercise_logic.last_pose_end_time = None]_vars

\* the second tree-pose completion of a session
C22_Witness ==
    /\ call.op = "count_reps"
    /\ call.exercise = "tree_pose"
    /\ call.ret
    /\ exercise_logic.rep_count = 2
    /\ exercise_logic.last_pose_end_time = now

\* C24: in the frame loop count_reps runs only on a frame for which
\* check_form returned true, and check_form returns false for tree_pose
\* whatever the angles and the phase; so a frame taken while tree_pose is
\* the active exercise never invokes count_reps: rep_count stays 0, phase
\* stays start, no timer is set, and no rep record or rep message is
\* produced.  (Run)
C24_TreePoseNeverCounts ==
    [][(current_exercise = "tree_pose" /\ call'.op = "frame") =>
          /\ \A phase \in {"start", "holding", "up", "down"} :
                ~check_form([exercise_logic EXCEPT !.exercise_state = phase],
                            "tree_pose", call'.angles).ret
          /\ ~call'.ret
          /\ exercise_logic'.rep_count = 0
          /\ exercise_logic'.exercise_state = "start"
          /\ exercise_logic'.pose_start_time = None
          /\ log_file' = log_file
          /\ feedback_queue' = feedback_queue]_vars

\* a frame that shows a held tree pose while tree_pose is active, after the
\* hold has had time to last 1.5s: nothing was counted
C24_Witness ==
    /\ call.op = "frame"
    /\ current_exercise = "tree_pose"
    /\ call.exercise = "tree_pose"
    /\ call.angles = KneeFrame(<<150, 90>>, <<170, 170>>)
    /\ now >= 22
    /\ exercise_logic.exercise_state = "start"
    /\ exercise_logic.rep_count = 0

\* C25: after any sequence of count_reps, check_form, get_form_feedback and
\* reset calls, phase holding implies that pose_start_time is present, so
\* the subtraction of the tree-pose holding branch never meets an absent
\* timestamp and no call raises.  (Spec)
C25_HoldingHasStartTime ==
    /\ exercise_logic.exercise_state = "holding" =>
           exercise_logic.pose_start_time # None
    /\ ~call.raised

\* the holding branch of the tree pose has subtracted a timer that an
\* earlier call started
C25_Witness ==
    /\ call.op = "count_reps" /\ call.exercise = "tree_pose"
    /\ tree_pose_angles_present(call.angles) /\ tree_pose_held(call.angles)
    /\ exercise_logic.exercise_state = "holding"
    /\ exercise_logic.pose_start_time # None
    /\ exercise_logic.pose_start_time < now

\* C23: whatever the interleaving of queue_feedback calls with the worker,
\* the worker never starts voicing a message less than cooldown seconds
\* after it started voicing the previous one.  (Feedback)
C23_CooldownBetweenVoicings ==
    [][(/\ Len(feedback_engine'.spoken) > Len(feedback_engine.spoken)
        /\ feedback_engine.voice_start # None) =>
           feedback_engine'.voice_start - feedback_engine.voice_start
               >= Cooldown]_vars

\* C26: whatever the interleaving of the client and the worker, the
\* messages are voiced in the order they were queued, each at most once,
\* and nothing is voiced that was not queued: the messages voiced, the one
\* the worker has taken and not yet voiced, and the queue make up the
\* history of the queue_feedback calls.  (Feedback)
C26_VoicedInQueueOrder ==
    LET taken == IF feedback_engine.thread = "say"
                 THEN <<feedback_engine.feedback>> ELSE <<>>
    IN  /\ feedback_engine.queued =
               feedback_engine.spoken \o taken \o feedback_queue
        /\ Len(feedback_engine.spoken) <= Len(feedback_engine.queued)
        /\ feedback_engine.spoken =
               SubSeq(feedback_engine.queued, 1, Len(feedback_engine.spoken))

\* two different messages were waiting together and both have been voiced
C26_Witness ==
    /\ Len(feedback_engine.spoken) = 2
    /\ feedback_engine.spoken[1] # feedback_engine.spoken[2]
    /\ Len(feedback_engine.queued) = 3
    /\ Len(feedback_queue) = 1

\* C27: once stop() has been called the worker leaves its loop and stop()
\* returns, whatever the queue holds, and the messages still queued then
\* are never voiced.  (FeedbackFair)
C27_StopReturns ==
    /\ (pc = "join") ~> (pc = "stopped")
    /\ [][feedback_engine.thread = "exited" =>
             /\ feedback_engine'.spoken = feedback_engine.spoken
             /\ feedback_queue' = feedback_queue
             /\ feedback_engine'.thread = "exited"]_vars

\* stop() has returned while a message was still queued
C27_Witness ==
    /\ pc = "stopped"
    /\ feedback_queue # <<>>
    /\ feedback_engine.spoken # <<>>
====
